---------------------------- MODULE Spec2Model ----------------------------
(***************************************************************************)
(* Brew timer (src/src/App.jsx): the stage alert scheduling engine of the  *)
(* BrewTimerApp component.  The component's React state, its memoised      *)
(* values (elapsedMs, sortedStages, nextStage), its controls (start,       *)
(* pause, resume, reset, acknowledgeAlert, the settings editors) and its   *)
(* stage firing effect are modelled.  A handler and the render after it    *)
(* are two steps: the handler writes the state and marks it dirty, Render  *)
(* recomputes the memoised values whose dependencies changed and then runs *)
(* the firing effect.  React flushes that render before it delivers the    *)
(* next event, so handlers and the passing of time wait for it.            *)
(*                                                                         *)
(* The catalog holds two stages throughout: addStage and removeStage, and  *)
(* the edits of label and sound, are left out; thresholds, the total       *)
(* duration and the pre-alert lead are edited.  Of the collaborators       *)
(* (audio, vibration, notification, flash) only the repeating interval     *)
(* timer of the audio is kept as state.                                    *)
(*                                                                         *)
(* Spec is the timer under a forward-moving clock with collaborators that  *)
(* succeed.  SpecClock lets the clock be set back as well, SpecThrowing    *)
(* lets a collaborator call throw, SpecLive is a run that keeps running    *)
(* under fair rendering and a fair clock, and SpecCatalog starts from the  *)
(* stage lists the settings can be restored with.                          *)
(***************************************************************************)
EXTENDS Integers, Sequences, FiniteSets, TLC

VARIABLES
    nowT,               \* wall clock, the value of Date.now() (ms)
    settings,           \* [totalMinutes, preAlertSeconds, stages]
    running,            \* useState(false)
    startTs,            \* useState(null): NULL or <<ms>>
    pausedAccum,        \* useState(0)
    pauseTs,            \* useState(null): NULL or <<ms>>
    lastFiredStageIds,  \* useState(new Set()): main alerts fired
    preAlertFiredIds,   \* useState(new Set()): pre-alerts fired
    activeAlert,        \* useState(null): NULL or <<[type, stage]>>
    beeperRef,          \* useRef(null): NULL or <<interval handle>>
    timers,             \* the live setInterval timers: set of [h, kind]
    elapsedMs,          \* the memoised value of useMemo at line 81
    memoDeps,           \* the dependency values elapsedMs was computed for
    dirty,              \* a state update awaits its render
    events,             \* the events the last step emitted, in order
    emitted,            \* history: events emitted in this run, counted by <<type, id>>
    lastOp,             \* the operation of the last step
    crossedMain,        \* history: stages seen at a running tick with elapsed >= T
    seenWindow,         \* history: stages seen at a running tick inside [T-L, T)
    elapsedAtPause,     \* history: elapsedMs when pause() last took effect
    resumeTs,           \* history: NULL or <<time resume() last took effect>>
    resetFrom           \* history: "none", or what the reset() this run (or
                        \* the wait for it) follows found: "fired" flags or "clean"

vars == <<nowT, settings, running, startTs, pausedAccum, pauseTs,
          lastFiredStageIds, preAlertFiredIds, activeAlert, beeperRef, timers,
          elapsedMs, memoDeps, dirty, events, emitted, lastOp,
          crossedMain, seenWindow, elapsedAtPause, resumeTs, resetFrom>>

\* The program's state proper (no scheduling or history variables).
progVars == <<settings, running, startTs, pausedAccum, pauseTs,
              lastFiredStageIds, preAlertFiredIds, activeAlert, beeperRef,
              timers>>

-----------------------------------------------------------------------------
(* Bounds *)

MaxAdvances == 2        \* the clock advances at most this many times

Epoch == 1000 * 1000            \* Date.now() when the component mounts
AdvanceMs == 30 * 1000 + 500    \* wall-clock time one Advance step lets pass
TotalMinutesInputs == {1, 2}    \* values typed into "Total Boil (minutes)"
PreAlertInputs == {0, 30}       \* values typed into "Pre-Alert Lead (seconds)"
MinuteInputs == {0, 1}          \* values typed into a stage's "Minute"
StageIds == {1, 2}              \* the identifiers of the configured stages

-----------------------------------------------------------------------------
(* Helpers *)

NULL == <<>>
Some(x) == <<x>>
Val(x) == x[1]

\* JavaScript truthiness of a nullable number: null and 0 are falsy.
Truthy(x) == x # NULL /\ Val(x) # 0

Min(a, b) == IF a < b THEN a ELSE b
Max(a, b) == IF a > b THEN a ELSE b

clamp(v, lo, hi) == Min(hi, Max(lo, v))

\* A raw stage minute is [isNum, halves]: the number halves/2, or a value
\* Number() turns into NaN.
Num(m) == [isNum |-> TRUE, halves |-> 2 * m]
NaN == [isNum |-> FALSE, halves |-> 0]

\* Math.round(Number(m) || 0): halves are rounded up.
RoundMinute(m) == IF m.isNum THEN (m.halves + 1) \div 2 ELSE 0


-----------------------------------------------------------------------------
(* Derived time *)

\* The useMemo callback without the lower end of the clamp.
ComputeElapsedMsNoFloor(t) ==
    IF ~running \/ ~Truthy(startTs)
    THEN 0
    ELSE Min((t - Val(startTs)) - pausedAccum, settings.totalMinutes * 60000)

\* The body of the useMemo callback: evaluated at time t.
ComputeElapsedMs(t) ==
    IF ~running \/ ~Truthy(startTs)
    THEN 0
    ELSE clamp((t - Val(startTs)) - pausedAccum, 0, settings.totalMinutes * 60000)

\* The dependency array of that useMemo.
ElapsedDeps == <<running, startTs, pausedAccum, settings.totalMinutes>>

\* Math.floor(elapsedMs / 1000)
elapsedSecOf(ms) == ms \div 1000

elapsedSec == elapsedSecOf(elapsedMs)

-----------------------------------------------------------------------------
(* Stage calculations *)

\* Variant: the threshold is capped at maxMin but not raised to 0.
CanonStageNoFloor(s, maxMin) ==
    [id |-> s.id, minute |-> Min(RoundMinute(s.minute), maxMin), sound |-> s.sound]

\* { ...s, minute: clamp(Math.round(Number(s.minute) || 0), 0, maxMin) }
CanonStage(s, maxMin) ==
    [id |-> s.id, minute |-> clamp(RoundMinute(s.minute), 0, maxMin), sound |-> s.sound]

\* Variant: an unstable sort, which puts an element before its equals.
RECURSIVE InsertSortedUnstable(_, _)
InsertSortedUnstable(sorted, s) ==
    IF sorted = <<>> THEN <<s>>
    ELSE IF Head(sorted).minute - s.minute < 0
         THEN <<Head(sorted)>> \o InsertSortedUnstable(Tail(sorted), s)
         ELSE <<s>> \o sorted

\* Array.prototype.sort with (a, b) => a.minute - b.minute is stable: an
\* element goes behind every element already placed that is not greater.
RECURSIVE InsertSorted(_, _)
InsertSorted(sorted, s) ==
    IF sorted = <<>> THEN <<s>>
    ELSE IF Head(sorted).minute - s.minute <= 0
         THEN <<Head(sorted)>> \o InsertSorted(Tail(sorted), s)
         ELSE <<s>> \o sorted

RECURSIVE SortByMinute(_)
SortByMinute(seq) ==
    IF seq = <<>> THEN <<>>
    ELSE InsertSorted(SortByMinute(SubSeq(seq, 1, Len(seq) - 1)), seq[Len(seq)])

sortedStagesOf(stages, maxMin) ==
    SortByMinute([i \in 1..Len(stages) |-> CanonStage(stages[i], maxMin)])

sortedStages == sortedStagesOf(settings.stages, settings.totalMinutes)

\* Variant: find with s.minute >= elMin.
RECURSIVE nextStageOfInclusive(_, _)
nextStageOfInclusive(stages, el) ==
    IF stages = <<>> THEN NULL
    ELSE IF Head(stages).minute * 60 >= el THEN Some(Head(stages))
    ELSE nextStageOfInclusive(Tail(stages), el)

\* sortedStages.find((s) => s.minute > elMin) || null, with elMin = el / 60:
\* s.minute > el / 60 exactly when s.minute * 60 > el.
RECURSIVE nextStageOf(_, _)
nextStageOf(stages, el) ==
    IF stages = <<>> THEN NULL
    ELSE IF Head(stages).minute * 60 > el THEN Some(Head(stages))
    ELSE nextStageOf(Tail(stages), el)

nextStage == nextStageOf(sortedStages, elapsedSec)

-----------------------------------------------------------------------------
(* Audio: the repeating signal *)

\* setInterval returns a handle no live timer has.
FreshHandle(live) == CHOOSE h \in 1..(Cardinality(live) + 1) : \A t \in live : t.h # h

\* stopContinuousBeep on the pair [ref, live]
stopContinuousBeepOn(b) ==
    IF Truthy(b.ref)
    THEN [ref |-> NULL, live |-> {t \in b.live : t.h # Val(b.ref)}]
    ELSE b

\* Variant: startContinuousBeep without the stopContinuousBeep() it begins with.
startContinuousBeepNoStop(b, kind) ==
    LET h == FreshHandle(b.live)
    IN  [ref |-> Some(h), live |-> b.live \cup {[h |-> h, kind |-> kind]}]

\* startContinuousBeep(kind) on the pair [ref, live]
startContinuousBeepOn(b, kind) ==
    LET stopped == stopContinuousBeepOn(b)
        h == FreshHandle(stopped.live)
    IN  [ref |-> Some(h), live |-> stopped.live \cup {[h |-> h, kind |-> kind]}]

Beeper == [ref |-> beeperRef, live |-> timers]

-----------------------------------------------------------------------------
(* Stage firing logic (pre + main) *)

\* Variant: the window has no upper end.
PreCondNoUpperEnd(s, el, lead, preFired) ==
    /\ lead > 0
    /\ el >= s.minute * 60 - lead
    /\ s.id \notin preFired

\* The pre-alert condition of the effect, for stage s at el seconds.
PreCond(s, el, lead, preFired) ==
    /\ lead > 0
    /\ el >= s.minute * 60 - lead
    /\ el < s.minute * 60
    /\ s.id \notin preFired

\* Variant: the fired set is not consulted.
MainCondNoFiredTest(s, el, mainFired) ==
    el >= s.minute * 60

\* Variant: the threshold itself does not count.
MainCondStrict(s, el, mainFired) ==
    /\ el > s.minute * 60
    /\ s.id \notin mainFired

\* The main alert condition of the effect.
MainCond(s, el, mainFired) ==
    /\ el >= s.minute * 60
    /\ s.id \notin mainFired

\* triggerPreAlert(stage): one chirp, no repeat; sets the banner.
triggerPreAlert(acc, s, t) ==
    [acc EXCEPT !.alert = Some([type |-> "pre", stage |-> s]),
                !.events = Append(@, [type |-> "pre", id |-> s.id, minute |-> s.minute,
                                      stage |-> s])]

\* triggerStageAlert(stage): starts the repeat; sets the banner.
triggerStageAlert(acc, s, t) ==
    [acc EXCEPT !.beeper = startContinuousBeepOn(@, IF s.sound # "" THEN s.sound ELSE "beep"),
                !.alert = Some([type |-> "stage", stage |-> s]),
                !.events = Append(@, [type |-> "stage", id |-> s.id, minute |-> s.minute,
                                      stage |-> s])]

\* One iteration of sortedStages.forEach.  The has() tests read the sets of
\* the render (preFired, mainFired); the updates go to the accumulator.
FireStage(acc, s, el, lead, preFired, mainFired, t) ==
    LET a1 == IF PreCond(s, el, lead, preFired)
              THEN [triggerPreAlert(acc, s, t) EXCEPT !.pre = @ \cup {s.id}]
              ELSE acc
    IN  IF MainCond(s, el, mainFired)
        THEN [triggerStageAlert(a1, s, t) EXCEPT !.main = @ \cup {s.id}]
        ELSE a1

RECURSIVE FireStages(_, _, _, _, _, _, _)
FireStages(acc, stages, el, lead, preFired, mainFired, t) ==
    IF stages = <<>> THEN acc
    ELSE FireStages(FireStage(acc, Head(stages), el, lead, preFired, mainFired, t),
                    Tail(stages), el, lead, preFired, mainFired, t)

\* Variant: the effect without its "if (!running) return".
FiringEffectNoRunningTest(el, t) ==
    LET acc0 == [alert |-> activeAlert, beeper |-> Beeper,
                 pre |-> preAlertFiredIds, main |-> lastFiredStageIds,
                 events |-> <<>>]
    IN  FireStages(acc0, sortedStages, el, settings.preAlertSeconds,
                   preAlertFiredIds, lastFiredStageIds, t)

\* The effect as a whole, run with elapsed el (seconds) at time t.
FiringEffect(el, t) ==
    LET acc0 == [alert |-> activeAlert, beeper |-> Beeper,
                 pre |-> preAlertFiredIds, main |-> lastFiredStageIds,
                 events |-> <<>>]
    IN  IF ~running THEN acc0
        ELSE FireStages(acc0, sortedStages, el, settings.preAlertSeconds,
                        preAlertFiredIds, lastFiredStageIds, t)


-----------------------------------------------------------------------------
(* Initial state: the first render of the component *)

EventTypes == {"pre", "stage"}

\* How many events of type k[1] for stage k[2] the sequence evs holds.
Count(evs, k) ==
    Cardinality({i \in 1..Len(evs) : evs[i].type = k[1] /\ evs[i].id = k[2]})

NoneEmitted == [k \in EventTypes \X StageIds |-> 0]

Stage(i, m, snd) == [id |-> i, minute |-> m, sound |-> snd]

\* Settings restored from localStorage, or the defaults scaled to minutes
\* the clock bound reaches.
InitSettings ==
    { [totalMinutes |-> 1, preAlertSeconds |-> 30,
       stages |-> <<Stage(2, Num(1), "bell"), Stage(1, Num(1), "beep")>>] }

Init ==
    /\ nowT = Epoch
    /\ settings \in InitSettings
    /\ running = FALSE
    /\ startTs = NULL
    /\ pausedAccum = 0
    /\ pauseTs = NULL
    /\ lastFiredStageIds = {}
    /\ preAlertFiredIds = {}
    /\ activeAlert = NULL
    /\ beeperRef = NULL
    /\ timers = {}
    /\ elapsedMs = 0
    /\ memoDeps = <<FALSE, NULL, 0, settings.totalMinutes>>
    /\ dirty = FALSE
    /\ events = <<>>
    /\ emitted = NoneEmitted
    /\ lastOp = "init"
    /\ crossedMain = {}
    /\ seenWindow = {}
    /\ elapsedAtPause = 0
    /\ resumeTs = NULL
    /\ resetFrom = "none"

-----------------------------------------------------------------------------
(* Controls *)

NewRunHistory ==
    /\ events' = <<>>
    /\ emitted' = NoneEmitted
    /\ crossedMain' = {}
    /\ seenWindow' = {}
    /\ elapsedAtPause' = 0
    /\ resumeTs' = NULL

SameHistory ==
    /\ events' = <<>>
    /\ UNCHANGED <<emitted, crossedMain, seenWindow, elapsedAtPause, resumeTs>>

\* Variant: start() forgets stopContinuousBeep().
StartKeepsBeeper ==
    /\ ~dirty
    /\ lastOp' = "start"
    /\ IF ~running
       THEN /\ startTs' = Some(nowT)
            /\ pausedAccum' = 0
            /\ pauseTs' = NULL
            /\ running' = TRUE
            /\ lastFiredStageIds' = {}
            /\ preAlertFiredIds' = {}
            /\ activeAlert' = NULL
            /\ UNCHANGED <<beeperRef, timers>>
            /\ dirty' = TRUE
            /\ NewRunHistory
       ELSE /\ UNCHANGED <<startTs, pausedAccum, pauseTs, running,
                           lastFiredStageIds, preAlertFiredIds, activeAlert,
                           beeperRef, timers, dirty>>
            /\ SameHistory
    /\ UNCHANGED <<nowT, settings, elapsedMs, memoDeps, resetFrom>>

Start ==
    /\ ~dirty
    /\ lastOp' = "start"
    /\ IF ~running
       THEN /\ startTs' = Some(nowT)
            /\ pausedAccum' = 0
            /\ pauseTs' = NULL
            /\ running' = TRUE
            /\ lastFiredStageIds' = {}
            /\ preAlertFiredIds' = {}
            /\ activeAlert' = NULL
            /\ beeperRef' = stopContinuousBeepOn(Beeper).ref
            /\ timers' = stopContinuousBeepOn(Beeper).live
            /\ dirty' = TRUE
            /\ NewRunHistory
       ELSE /\ UNCHANGED <<startTs, pausedAccum, pauseTs, running,
                           lastFiredStageIds, preAlertFiredIds, activeAlert,
                           beeperRef, timers, dirty>>
            /\ SameHistory
    /\ UNCHANGED <<nowT, settings, elapsedMs, memoDeps, resetFrom>>

\* Variant: pause() also stops the repeating signal.
PauseStopsBeeper ==
    /\ ~dirty
    /\ lastOp' = "pause"
    /\ IF running
       THEN /\ running' = FALSE
            /\ pauseTs' = Some(nowT)
            /\ dirty' = TRUE
            /\ elapsedAtPause' = elapsedMs
            /\ beeperRef' = stopContinuousBeepOn(Beeper).ref
            /\ timers' = stopContinuousBeepOn(Beeper).live
       ELSE UNCHANGED <<running, pauseTs, dirty, elapsedAtPause, beeperRef, timers>>
    /\ events' = <<>>
    /\ UNCHANGED <<nowT, settings, startTs, pausedAccum, lastFiredStageIds,
                   preAlertFiredIds, activeAlert, elapsedMs,
                   memoDeps, emitted, crossedMain, seenWindow, resumeTs, resetFrom>>

\* Variant: pause() without its "if (running)".
PauseUnguarded ==
    /\ ~dirty
    /\ lastOp' = "pause"
    /\ running' = FALSE
    /\ pauseTs' = Some(nowT)
    /\ dirty' = TRUE
    /\ elapsedAtPause' = elapsedMs
    /\ events' = <<>>
    /\ UNCHANGED <<nowT, settings, startTs, pausedAccum, lastFiredStageIds,
                   preAlertFiredIds, activeAlert, beeperRef, timers, elapsedMs,
                   memoDeps, emitted, crossedMain, seenWindow, resumeTs, resetFrom>>

Pause ==
    /\ ~dirty
    /\ lastOp' = "pause"
    /\ IF running
       THEN /\ running' = FALSE
            /\ pauseTs' = Some(nowT)
            /\ dirty' = TRUE
            /\ elapsedAtPause' = elapsedMs
       ELSE UNCHANGED <<running, pauseTs, dirty, elapsedAtPause>>
    /\ events' = <<>>
    /\ UNCHANGED <<nowT, settings, startTs, pausedAccum, lastFiredStageIds,
                   preAlertFiredIds, activeAlert, beeperRef, timers, elapsedMs,
                   memoDeps, emitted, crossedMain, seenWindow, resumeTs, resetFrom>>

\* Variant: resume() adds the paused interval twice.
ResumeCountsTwice ==
    /\ ~dirty
    /\ lastOp' = "resume"
    /\ IF ~running /\ Truthy(pauseTs)
       THEN /\ pausedAccum' = pausedAccum + 2 * (nowT - Val(pauseTs))
            /\ pauseTs' = NULL
            /\ running' = TRUE
            /\ dirty' = TRUE
            /\ resumeTs' = Some(nowT)
       ELSE UNCHANGED <<pausedAccum, pauseTs, running, dirty, resumeTs>>
    /\ events' = <<>>
    /\ UNCHANGED <<nowT, settings, startTs, lastFiredStageIds,
                   preAlertFiredIds, activeAlert, beeperRef, timers, elapsedMs,
                   memoDeps, emitted, crossedMain, seenWindow,
                   elapsedAtPause, resetFrom>>

Resume ==
    /\ ~dirty
    /\ lastOp' = "resume"
    /\ IF ~running /\ Truthy(pauseTs)
       THEN /\ pausedAccum' = pausedAccum + (nowT - Val(pauseTs))
            /\ pauseTs' = NULL
            /\ running' = TRUE
            /\ dirty' = TRUE
            /\ resumeTs' = Some(nowT)
       ELSE UNCHANGED <<pausedAccum, pauseTs, running, dirty, resumeTs>>
    /\ events' = <<>>
    /\ UNCHANGED <<nowT, settings, startTs, lastFiredStageIds,
                   preAlertFiredIds, activeAlert, beeperRef, timers, elapsedMs,
                   memoDeps, emitted, crossedMain, seenWindow,
                   elapsedAtPause, resetFrom>>

\* Variant: reset() forgets to clear the main-alert set.
ResetKeepsFired ==
    /\ ~dirty
    /\ lastOp' = "reset"
    /\ running' = FALSE
    /\ startTs' = NULL
    /\ pausedAccum' = 0
    /\ pauseTs' = NULL
    /\ UNCHANGED lastFiredStageIds
    /\ preAlertFiredIds' = {}
    /\ activeAlert' = NULL
    /\ beeperRef' = stopContinuousBeepOn(Beeper).ref
    /\ timers' = stopContinuousBeepOn(Beeper).live
    /\ dirty' = TRUE
    /\ NewRunHistory
    /\ resetFrom' = IF lastFiredStageIds # {} THEN "fired" ELSE "clean"
    /\ UNCHANGED <<nowT, settings, elapsedMs, memoDeps>>

\* Variant: reset() forgets setPausedAccum(0).
ResetKeepsPausedAccum ==
    /\ ~dirty
    /\ lastOp' = "reset"
    /\ running' = FALSE
    /\ startTs' = NULL
    /\ UNCHANGED pausedAccum
    /\ pauseTs' = NULL
    /\ lastFiredStageIds' = {}
    /\ preAlertFiredIds' = {}
    /\ activeAlert' = NULL
    /\ beeperRef' = stopContinuousBeepOn(Beeper).ref
    /\ timers' = stopContinuousBeepOn(Beeper).live
    /\ dirty' = TRUE
    /\ NewRunHistory
    /\ resetFrom' = IF lastFiredStageIds # {} THEN "fired" ELSE "clean"
    /\ UNCHANGED <<nowT, settings, elapsedMs, memoDeps>>

Reset ==
    /\ ~dirty
    /\ lastOp' = "reset"
    /\ running' = FALSE
    /\ startTs' = NULL
    /\ pausedAccum' = 0
    /\ pauseTs' = NULL
    /\ lastFiredStageIds' = {}
    /\ preAlertFiredIds' = {}
    /\ activeAlert' = NULL
    /\ beeperRef' = stopContinuousBeepOn(Beeper).ref
    /\ timers' = stopContinuousBeepOn(Beeper).live
    /\ dirty' = TRUE
    /\ NewRunHistory
    /\ resetFrom' = IF lastFiredStageIds # {} THEN "fired" ELSE "clean"
    /\ UNCHANGED <<nowT, settings, elapsedMs, memoDeps>>

\* Variant: acknowledging also forgets which main alerts fired.
acknowledgeAlertClearsFired ==
    /\ ~dirty
    /\ lastOp' = "acknowledge"
    /\ beeperRef' = stopContinuousBeepOn(Beeper).ref
    /\ timers' = stopContinuousBeepOn(Beeper).live
    /\ activeAlert' = NULL
    /\ lastFiredStageIds' = {}
    /\ dirty' = TRUE
    /\ UNCHANGED <<nowT, settings, running, startTs, pausedAccum, pauseTs,
                   preAlertFiredIds, elapsedMs, memoDeps, resetFrom>>
    /\ SameHistory

acknowledgeAlert ==
    /\ ~dirty
    /\ lastOp' = "acknowledge"
    /\ beeperRef' = stopContinuousBeepOn(Beeper).ref
    /\ timers' = stopContinuousBeepOn(Beeper).live
    /\ activeAlert' = NULL
    /\ dirty' = (activeAlert # NULL)
    /\ UNCHANGED <<nowT, settings, running, startTs, pausedAccum, pauseTs,
                   lastFiredStageIds, preAlertFiredIds, elapsedMs, memoDeps,
                   resetFrom>>
    /\ SameHistory

-----------------------------------------------------------------------------
(* Settings editors *)

EditFrame ==
    /\ lastOp' = "other"
    /\ dirty' = TRUE
    /\ UNCHANGED <<nowT, running, startTs, pausedAccum, pauseTs,
                   lastFiredStageIds, preAlertFiredIds, activeAlert, beeperRef,
                   timers, elapsedMs, memoDeps, resetFrom>>
    /\ SameHistory

\* onChange of "Total Boil (minutes)"
SetTotalMinutes(v) ==
    /\ ~dirty
    /\ settings' = [settings EXCEPT !.totalMinutes = clamp(v, 1, 600)]
    /\ EditFrame

\* onChange of "Pre-Alert Lead (seconds)"
SetPreAlertSeconds(v) ==
    /\ ~dirty
    /\ settings' = [settings EXCEPT !.preAlertSeconds = clamp(v, 0, 300)]
    /\ EditFrame

\* updateStage(id, { minute: clamp(Number(value || 0), 0, totalMinutes) })
updateStage(id, v) ==
    /\ ~dirty
    /\ \E i \in 1..Len(settings.stages) : settings.stages[i].id = id
    /\ settings' = [settings EXCEPT
                      !.stages = [i \in 1..Len(@) |->
                                    IF @[i].id = id
                                    THEN [@[i] EXCEPT !.minute =
                                            Num(clamp(v, 0, settings.totalMinutes))]
                                    ELSE @[i]]]
    /\ EditFrame

-----------------------------------------------------------------------------
(* Time and rendering *)

\* Wall-clock time passes.
Advance ==
    /\ ~dirty
    /\ nowT + AdvanceMs <= Epoch + MaxAdvances * AdvanceMs
    /\ nowT' = nowT + AdvanceMs
    /\ lastOp' = "other"
    /\ UNCHANGED <<settings, running, startTs, pausedAccum, pauseTs,
                   lastFiredStageIds, preAlertFiredIds, activeAlert, beeperRef,
                   timers, elapsedMs, memoDeps, dirty, resetFrom>>
    /\ SameHistory

\* One render (an animation frame, or the render a state update asks for):
\* elapsedMs is recomputed when its dependencies changed, then the firing
\* effect runs.  The effect's own state updates cause one more render in
\* which it fires nothing, every stage it could fire being in the sets.
Tick ==
    LET newMs == IF ElapsedDeps # memoDeps THEN ComputeElapsedMs(nowT) ELSE elapsedMs
        el == elapsedSecOf(newMs)
        res == FiringEffect(el, nowT)
        ss == sortedStages
        lead == settings.preAlertSeconds
    IN  /\ elapsedMs' = newMs
        /\ memoDeps' = ElapsedDeps
        /\ activeAlert' = res.alert
        /\ beeperRef' = res.beeper.ref
        /\ timers' = res.beeper.live
        /\ preAlertFiredIds' = res.pre
        /\ lastFiredStageIds' = res.main
        /\ events' = res.events
        /\ emitted' = [k \in DOMAIN emitted |-> emitted[k] + Count(res.events, k)]
        /\ dirty' = FALSE
        /\ lastOp' = "tick"
        /\ crossedMain' = crossedMain \cup
              {ss[i].id : i \in {j \in 1..Len(ss) : running /\ el >= ss[j].minute * 60}}
        /\ seenWindow' = seenWindow \cup
              {ss[i].id : i \in {j \in 1..Len(ss) :
                   /\ running /\ lead > 0
                   /\ el >= ss[j].minute * 60 - lead
                   /\ el < ss[j].minute * 60}}
        /\ resetFrom' = IF running THEN "none" ELSE resetFrom
        /\ UNCHANGED <<nowT, settings, running, startTs, pausedAccum, pauseTs,
                       elapsedAtPause, resumeTs>>

Next ==
    \/ Start
    \/ Pause
    \/ Resume
    \/ Reset
    \/ acknowledgeAlert
    \/ \E v \in TotalMinutesInputs : SetTotalMinutes(v)
    \/ \E v \in PreAlertInputs : SetPreAlertSeconds(v)
    \/ \E id \in StageIds, v \in MinuteInputs : updateStage(id, v)
    \/ Advance
    \/ Tick

Spec == Init /\ [][Next]_vars

-----------------------------------------------------------------------------
(* The timer under a wall clock that may also be set back *)

\* Date.now() is the system clock: an adjustment (NTP, the user) sets it back.
\* Explored for runs that have accumulated no pause yet, which keeps
\* pausedAccum within MaxAdvances steps of 0.
ClockBack ==
    /\ ~dirty
    /\ nowT - AdvanceMs >= Epoch
    /\ pausedAccum = 0
    /\ nowT' = nowT - AdvanceMs
    /\ lastOp' = "other"
    /\ UNCHANGED <<settings, running, startTs, pausedAccum, pauseTs,
                   lastFiredStageIds, preAlertFiredIds, activeAlert, beeperRef,
                   timers, elapsedMs, memoDeps, dirty, resetFrom>>
    /\ SameHistory

NextClock ==
    \/ Start
    \/ Pause
    \/ Resume
    \/ Reset
    \/ \E v \in TotalMinutesInputs : SetTotalMinutes(v)
    \/ Advance
    \/ ClockBack
    \/ Tick

SpecClock == Init /\ [][NextClock]_vars


-----------------------------------------------------------------------------
(* The stage catalog over the settings the component can be mounted with:  *)
(* the stages come from localStorage as they were saved, so a minute is    *)
(* whatever the stored JSON holds.                                         *)

MaxRawStages == 3       \* the stored stage lists have at most this many entries

\* Stored minutes: not a number (a string such as "abc"), -1.5, 0.5, 1, 2.5
RawMinuteInputs == {NaN} \cup {[isNum |-> TRUE, halves |-> h] : h \in {-3, 1, 2, 5}}

\* The stored lists: the identifiers ascend or descend along the list.
RawStageLists ==
    UNION {
      { [i \in 1..n |-> Stage(IF up THEN i ELSE n + 1 - i, ms[i], "beep")] :
          ms \in [1..n -> RawMinuteInputs], up \in BOOLEAN }
      : n \in 0..MaxRawStages }

InitCatalog ==
    /\ nowT = Epoch
    /\ settings \in { [totalMinutes |-> tm, preAlertSeconds |-> 30, stages |-> st] :
                         tm \in TotalMinutesInputs, st \in RawStageLists }
    /\ running = FALSE
    /\ startTs = NULL
    /\ pausedAccum = 0
    /\ pauseTs = NULL
    /\ lastFiredStageIds = {}
    /\ preAlertFiredIds = {}
    /\ activeAlert = NULL
    /\ beeperRef = NULL
    /\ timers = {}
    /\ elapsedMs = 0
    /\ memoDeps = <<FALSE, NULL, 0, settings.totalMinutes>>
    /\ dirty = FALSE
    /\ events = <<>>
    /\ emitted = NoneEmitted
    /\ lastOp = "init"
    /\ crossedMain = {}
    /\ seenWindow = {}
    /\ elapsedAtPause = 0
    /\ resumeTs = NULL
    /\ resetFrom = "none"

\* The edits that change what sortedStages is computed from, and the render
\* that computes it.
NextCatalog ==
    \/ \E v \in TotalMinutesInputs : SetTotalMinutes(v)
    \/ \E id \in StageIds, v \in MinuteInputs : updateStage(id, v)
    \/ Tick

SpecCatalog == InitCatalog /\ [][NextCatalog]_vars

-----------------------------------------------------------------------------
(* A run that keeps running: no pause(), no reset().  The animation-frame  *)
(* loop (requestAnimationFrame re-armed by every frame) keeps rendering    *)
(* and the wall clock keeps advancing up to the horizon of the model.      *)

NextLive ==
    \/ Start
    \/ acknowledgeAlert
    \/ \E id \in StageIds, v \in MinuteInputs : updateStage(id, v)
    \/ Advance
    \/ Tick

SpecLive == Init /\ [][NextLive]_vars /\ WF_vars(Tick) /\ WF_vars(Advance)

-----------------------------------------------------------------------------
(* The timer with a collaborator whose dispatch throws *)

\* What an alert dispatches to: playSound, navigator.vibrate, visualFlash,
\* new Notification.
Collaborators == {"sound", "vibrate", "flash", "notify"}

\* triggerPreAlert(stage) when collaborator fail throws: playSound is inside
\* try/catch, the three calls after it are not, and setActiveAlert is last.
triggerPreAlertThrowing(acc, s, t, fail) ==
    IF fail \in {"vibrate", "flash", "notify"}
    THEN [acc EXCEPT !.thrown = TRUE]
    ELSE [acc EXCEPT !.alert = Some([type |-> "pre", stage |-> s]),
                     !.events = Append(@, [type |-> "pre", id |-> s.id,
                                           minute |-> s.minute, stage |-> s])]

\* triggerStageAlert(stage) when collaborator fail throws: visualFlash, then
\* startContinuousBeep (stopContinuousBeep, playSound, setInterval), then
\* vibrate, then Notification, then setActiveAlert; nothing is caught.
triggerStageAlertThrowing(acc, s, t, fail) ==
    IF fail = "flash" THEN [acc EXCEPT !.thrown = TRUE]
    ELSE IF fail = "sound"
    THEN [acc EXCEPT !.beeper = stopContinuousBeepOn(@), !.thrown = TRUE]
    ELSE [acc EXCEPT !.beeper = startContinuousBeepOn(@, IF s.sound # "" THEN s.sound
                                                         ELSE "beep"),
                     !.thrown = TRUE]

\* One iteration of sortedStages.forEach: the exception leaves the callback
\* before the set update that follows the trigger call.
FireStageThrowing(acc, s, el, lead, preFired, mainFired, t, fail) ==
    LET a1 == IF PreCond(s, el, lead, preFired)
              THEN LET r == triggerPreAlertThrowing(acc, s, t, fail)
                   IN  IF r.thrown THEN r ELSE [r EXCEPT !.pre = @ \cup {s.id}]
              ELSE acc
    IN  IF ~a1.thrown /\ MainCond(s, el, mainFired)
        THEN triggerStageAlertThrowing(a1, s, t, fail)
        ELSE a1

\* forEach ends at the first exception.
RECURSIVE FireStagesThrowing(_, _, _, _, _, _, _, _)
FireStagesThrowing(acc, stages, el, lead, preFired, mainFired, t, fail) ==
    IF stages = <<>> \/ acc.thrown THEN acc
    ELSE FireStagesThrowing(
             FireStageThrowing(acc, Head(stages), el, lead, preFired, mainFired, t, fail),
             Tail(stages), el, lead, preFired, mainFired, t, fail)

FiringEffectThrowing(el, t, fail) ==
    LET acc0 == [alert |-> activeAlert, beeper |-> Beeper,
                 pre |-> preAlertFiredIds, main |-> lastFiredStageIds,
                 events |-> <<>>, thrown |-> FALSE]
    IN  IF ~running THEN acc0
        ELSE FireStagesThrowing(acc0, sortedStages, el, settings.preAlertSeconds,
                                preAlertFiredIds, lastFiredStageIds, t, fail)

\* A render whose effect throws because collaborator fail does.  The state is
\* what the calls made before the exception left behind.
TickThrows(fail) ==
    LET newMs == IF ElapsedDeps # memoDeps THEN ComputeElapsedMs(nowT) ELSE elapsedMs
        res == FiringEffectThrowing(elapsedSecOf(newMs), nowT, fail)
    IN  /\ res.thrown
        /\ elapsedMs' = newMs
        /\ memoDeps' = ElapsedDeps
        /\ activeAlert' = res.alert
        /\ beeperRef' = res.beeper.ref
        /\ timers' = res.beeper.live
        /\ preAlertFiredIds' = res.pre
        /\ lastFiredStageIds' = res.main
        /\ events' = res.events
        /\ emitted' = [k \in DOMAIN emitted |-> emitted[k] + Count(res.events, k)]
        /\ dirty' = FALSE
        /\ lastOp' = "throw"
        /\ UNCHANGED <<nowT, settings, running, startTs, pausedAccum, pauseTs,
                       crossedMain, seenWindow, resetFrom, elapsedAtPause, resumeTs>>

\* An exception that leaves an effect ends the component: nothing follows it.
NextThrowing ==
    \/ lastOp # "throw" /\ Next
    \/ \E fail \in Collaborators : lastOp # "throw" /\ TickThrows(fail)

SpecThrowing == Init /\ [][NextThrowing]_vars

-----------------------------------------------------------------------------
(* Vocabulary of the properties *)

\* The position of stage id in the settings (its insertion order).
PosOf(stg, id) == CHOOSE i \in 1..Len(stg.stages) : stg.stages[i].id = id

\* The threshold of stage id in seconds, as the catalog canonicalises it.
ThresholdSec(stg, id) ==
    CanonStage(stg.stages[PosOf(stg, id)], stg.totalMinutes).minute * 60

\* elapsed lies in the pre-alert window [T - L, T) of stage id.
InPreWindow(stg, id, el) ==
    /\ stg.preAlertSeconds > 0
    /\ el >= ThresholdSec(stg, id) - stg.preAlertSeconds
    /\ el < ThresholdSec(stg, id)

\* The step begins a new run: reset(), or a start() that takes effect.
NewRun == lastOp' = "reset" \/ (lastOp' = "start" /\ ~running)

\* The step is a tick taken while running.
RunningTick == lastOp' = "tick" /\ running

MainEvents(evs, id) == Count(evs, <<"stage", id>>)
PreEvents(evs, id) == Count(evs, <<"pre", id>>)

-----------------------------------------------------------------------------
(* C1: within one run at most one MainAlert is emitted for a stage: once   *)
(* the stage's main-alert flag is set it stays set until the next run      *)
(* begins, and no step emits a further MainAlert for the stage.            *)

C1_MainAlertAtMostOnce ==
    /\ [](\A id \in StageIds : emitted[<<"stage", id>>] <= 1)
    /\ [][~NewRun =>
            \A id \in StageIds :
               id \in lastFiredStageIds =>
                  /\ id \in lastFiredStageIds'
                  /\ MainEvents(events', id) = 0]_vars

\* A running tick at or past the threshold of a stage that has fired emits
\* nothing for it.
C1_Witness ==
    /\ lastOp = "tick" /\ running
    /\ \E id \in StageIds :
         /\ id \in lastFiredStageIds
         /\ emitted[<<"stage", id>>] = 1
         /\ elapsedSec >= ThresholdSec(settings, id)
         /\ MainEvents(events, id) = 0

-----------------------------------------------------------------------------
(* C2: the first running tick at which elapsed >= T emits exactly one      *)
(* MainAlert and no PreAlert for the stage, whether or not a PreAlert was  *)
(* ever emitted for it.                                                    *)

C2_MainAlertAtFirstCrossing ==
    [][RunningTick =>
         \A id \in StageIds :
            (elapsedSec' >= ThresholdSec(settings, id) /\ id \notin crossedMain) =>
               /\ MainEvents(events', id) = 1
               /\ PreEvents(events', id) = 0]_vars

\* The pre-alert window was skipped: the MainAlert is emitted by a tick although
\* no tick of the run fell into the window and no PreAlert was emitted.
C2_Witness ==
    /\ lastOp = "tick" /\ running
    /\ \E id \in StageIds :
         /\ settings.preAlertSeconds > 0
         /\ ThresholdSec(settings, id) > 0
         /\ MainEvents(events, id) = 1
         /\ PreEvents(events, id) = 0
         /\ emitted[<<"pre", id>>] = 0
         /\ id \notin seenWindow

-----------------------------------------------------------------------------
(* C3: a PreAlert is emitted at most once per run for a stage, only by a   *)
(* running tick with L > 0 and T - L <= elapsed < T, and by the first such *)
(* tick of the run; with L = 0 none is emitted.                            *)

C3_PreAlertOnceInWindow ==
    /\ [](\A id \in StageIds : emitted[<<"pre", id>>] <= 1)
    /\ [][\A id \in StageIds :
            /\ PreEvents(events', id) > 0 =>
                  /\ RunningTick
                  /\ InPreWindow(settings, id, elapsedSec')
            /\ (RunningTick /\ InPreWindow(settings, id, elapsedSec')
                  /\ id \notin seenWindow) =>
                  PreEvents(events', id) = 1]_vars

C3_Witness ==
    /\ lastOp = "tick" /\ running
    /\ \E id \in StageIds :
         /\ PreEvents(events, id) = 1
         /\ InPreWindow(settings, id, elapsedSec)

-----------------------------------------------------------------------------
(* C10: the events of one tick come in canonical order (ascending          *)
(* threshold, equal thresholds in insertion order) and the active alert    *)
(* after the tick is the last of them; two stages of equal threshold that  *)
(* cross in one tick both fire, the earlier inserted first, and the active *)
(* alert is the later inserted stage's main alert.                         *)

CanonicalBefore(stg, e1, e2) ==
    \/ e1.minute < e2.minute
    \/ e1.minute = e2.minute /\ PosOf(stg, e1.id) < PosOf(stg, e2.id)

C10_CanonicalOrder ==
    [][lastOp' = "tick" =>
         /\ \A i, j \in 1..Len(events') :
               i < j => CanonicalBefore(settings, events'[i], events'[j])
         /\ events' # <<>> =>
               LET last == events'[Len(events')]
               IN  /\ activeAlert' # NULL
                   /\ Val(activeAlert').type = last.type
                   /\ Val(activeAlert').stage.id = last.id
                   /\ \A i \in 1..Len(events') : events'[i].minute <= last.minute
         /\ \A a, b \in StageIds :
               ( /\ running
                 /\ PosOf(settings, a) < PosOf(settings, b)
                 /\ ThresholdSec(settings, a) = ThresholdSec(settings, b)
                 /\ elapsedSec' >= ThresholdSec(settings, a)
                 /\ a \notin crossedMain /\ b \notin crossedMain ) =>
               /\ MainEvents(events', a) = 1 /\ MainEvents(events', b) = 1
               /\ Val(activeAlert') = [type |-> "stage",
                                       stage |-> events'[Len(events')].stage]
               /\ events'[Len(events')].id = b]_vars

\* Both stages of a tie fired in one tick, in insertion order.
C10_Witness ==
    /\ lastOp = "tick"
    /\ Len(events) = 2
    /\ events[1].type = "stage" /\ events[2].type = "stage"
    /\ events[1].minute = events[2].minute
    /\ PosOf(settings, events[1].id) < PosOf(settings, events[2].id)
    /\ activeAlert # NULL
    /\ Val(activeAlert).stage.id = events[2].id


-----------------------------------------------------------------------------
(* C4: while paused, the elapsed value the timer reports (at every render) *)
(* equals the elapsed value it reported when pause() was called.           *)

Paused == ~running /\ pauseTs # NULL

C4_ElapsedFrozenWhilePaused ==
    (Paused /\ lastOp = "tick") => elapsedMs = elapsedAtPause

-----------------------------------------------------------------------------
(* C5: after resume(), the elapsed value reported by a render at time t is *)
(* the elapsed value at the last pause() plus (t - time of that resume()), *)
(* saturated at the total duration.                                        *)

C5_ElapsedAfterResume ==
    (running /\ lastOp = "tick" /\ resumeTs # NULL) =>
        elapsedMs = clamp(elapsedAtPause + (nowT - Val(resumeTs)),
                          0, settings.totalMinutes * 60000)

-----------------------------------------------------------------------------
(* C6: reset() leaves every fired flag false and the never-started state;  *)
(* a start() that follows it yields the state of a fresh run, which but    *)
(* for the clock and the settings is one state, and the first render of    *)
(* the run reports elapsed 0, so the run repeats as the first one did.     *)

NeverStarted ==
    /\ ~running /\ startTs = NULL /\ pausedAccum = 0 /\ pauseTs = NULL
    /\ lastFiredStageIds = {} /\ preAlertFiredIds = {}
    /\ activeAlert = NULL /\ beeperRef = NULL /\ timers = {}
    /\ emitted = NoneEmitted

FreshRun ==
    /\ running /\ startTs = Some(nowT) /\ pausedAccum = 0 /\ pauseTs = NULL
    /\ lastFiredStageIds = {} /\ preAlertFiredIds = {}
    /\ activeAlert = NULL /\ beeperRef = NULL /\ timers = {}
    /\ emitted = NoneEmitted

C6_ResetThenStartIsFresh ==
    [][/\ lastOp' = "reset" => NeverStarted'
       /\ (resetFrom # "none" /\ lastOp' = "start") => FreshRun'
       /\ (resetFrom # "none" /\ lastOp = "start" /\ lastOp' = "tick") =>
              /\ elapsedMs' = 0
              /\ \A id \in StageIds :
                    MainEvents(events', id) =
                       (IF ThresholdSec(settings, id) = 0 THEN 1 ELSE 0)]_vars

\* start() has followed a reset() that had fired flags to clear.
C6_Witness ==
    /\ lastOp = "start"
    /\ resetFrom = "fired"
    /\ FreshRun

-----------------------------------------------------------------------------
(* C7 as stated: start() and reset(), invoked in any state, leave the      *)
(* repeating signal stopped and no active alert; start() also leaves       *)
(* running = true, start timestamp = now, accumulated pause 0 and no pause *)
(* timestamp.                                                              *)

C7_StartResetUnconditional ==
    /\ lastOp \in {"start", "reset"} =>
          beeperRef = NULL /\ timers = {} /\ activeAlert = NULL
    /\ lastOp = "start" =>
          running /\ startTs = Some(nowT) /\ pausedAccum = 0 /\ pauseTs = NULL

(* C7 amended: reset() is unconditional; start() takes effect only when    *)
(* the timer is not running, and then leaves the signal stopped, no active *)
(* alert, running = true, start timestamp = now, accumulated pause 0 and   *)
(* no pause timestamp; invoked while the timer runs it changes nothing.    *)

C7_StartGuardedResetUnconditional ==
    [][/\ lastOp' = "reset" =>
             beeperRef' = NULL /\ timers' = {} /\ activeAlert' = NULL
       /\ (lastOp' = "start" /\ ~running) =>
             /\ beeperRef' = NULL /\ timers' = {} /\ activeAlert' = NULL
             /\ running' /\ startTs' = Some(nowT') /\ pausedAccum' = 0
             /\ pauseTs' = NULL
       /\ (lastOp' = "start" /\ running) => UNCHANGED progVars]_vars

\* start() was invoked while the timer ran with an unacknowledged main alert.
C7_Witness ==
    /\ lastOp = "start"
    /\ running /\ ~dirty
    /\ beeperRef # NULL
    /\ activeAlert # NULL /\ Val(activeAlert).type = "stage"

-----------------------------------------------------------------------------
(* C8: acknowledge() leaves the repeating signal stopped and no active     *)
(* alert, whichever kind was active, and changes neither the timer run nor *)
(* the fired flags nor the settings; with no alert active it changes       *)
(* nothing.                                                                *)

C8_AcknowledgeFrame ==
    [][lastOp' = "acknowledge" =>
         /\ beeperRef' = NULL /\ timers' = {} /\ activeAlert' = NULL
         /\ UNCHANGED <<settings, running, startTs, pausedAccum, pauseTs,
                        lastFiredStageIds, preAlertFiredIds, emitted>>
         /\ events' = <<>>
         /\ activeAlert = NULL => UNCHANGED progVars]_vars

\* A main alert was acknowledged in a running timer.
C8_Witness ==
    /\ lastOp = "acknowledge"
    /\ dirty /\ running
    /\ lastFiredStageIds # {}
    /\ activeAlert = NULL /\ beeperRef = NULL

-----------------------------------------------------------------------------
(* C9: the repeating signal a MainAlert started stays active over every    *)
(* step but acknowledge(), start() and reset(); a tick that emits no       *)
(* MainAlert leaves it as it is (a PreAlert neither starts nor stops it),  *)
(* and a tick that emits one leaves exactly the repeat of its last         *)
(* MainAlert.                                                              *)

RepeatActive == beeperRef # NULL /\ \E t \in timers : t.h = Val(beeperRef)

C9_RepeatUntilStopped ==
    [][/\ (RepeatActive /\ lastOp' \notin {"acknowledge", "start", "reset"}) =>
             RepeatActive'
       /\ (lastOp' = "tick" /\ \A id \in StageIds : MainEvents(events', id) = 0) =>
             UNCHANGED <<beeperRef, timers>>
       /\ (lastOp' = "tick" /\ \E id \in StageIds : MainEvents(events', id) > 0) =>
             /\ RepeatActive'
             /\ Cardinality(timers') = 1]_vars

\* pause() was called while a main alert's repeat was active.
C9_Witness ==
    /\ lastOp = "pause"
    /\ Paused /\ dirty
    /\ RepeatActive

-----------------------------------------------------------------------------
(* C11: in every state the timer shows (every render), whatever the        *)
(* sequence of start/pause/resume/reset and whatever values the wall clock *)
(* takes, set back included: 0 <= elapsed <= total duration.               *)

C11_ElapsedWithinBounds ==
    ~dirty => (0 <= elapsedMs /\ elapsedMs <= settings.totalMinutes * 60000)

\* A render while running at which the clock stands before the start
\* timestamp.
C11_Witness ==
    /\ lastOp = "tick" /\ running
    /\ nowT < Val(startTs)
    /\ elapsedMs = 0

-----------------------------------------------------------------------------
(* C12 as stated: within a run, elapsed is non-decreasing while running:   *)
(* of two renders of the same run at which the timer is running, the later *)
(* reports an elapsed value at least as large as the earlier, pause/resume *)
(* cycles between them included.                                           *)

\* The render before this one showed the timer running in the same run.
RenderedRunning == memoDeps[1] /\ running

\* The elapsed value of the last render of this run that showed the timer
\* running: the value on display, or the one at pause() after a resume().
LastRunningElapsed == IF RenderedRunning THEN elapsedMs ELSE elapsedAtPause

C12_ElapsedNonDecreasing ==
    [][(RunningTick /\ (RenderedRunning \/ resumeTs # NULL)) =>
          elapsedMs' >= LastRunningElapsed]_vars

(* C12 amended: within a run, of two renders at which the timer is running *)
(* the later reports at least the smaller of the earlier value and the     *)
(* total duration then configured: elapsed decreases only when the total   *)
(* duration is lowered below it, and then to the new total.                *)

C12_ElapsedNonDecreasingUpToTotal ==
    [][(RunningTick /\ (RenderedRunning \/ resumeTs # NULL)) =>
          elapsedMs' >= Min(LastRunningElapsed, settings.totalMinutes * 60000)]_vars

\* A render after a pause/resume cycle reports more than the render before
\* the pause did.
C12_Witness ==
    /\ lastOp = "tick" /\ running
    /\ resumeTs # NULL
    /\ elapsedAtPause > 0
    /\ elapsedMs > elapsedAtPause

-----------------------------------------------------------------------------
(* C13: a collaborator dispatch that fails during a tick changes nothing   *)
(* about the outcome of the tick: the fired flags and the active alert     *)
(* after the tick are those of the same tick with every dispatch           *)
(* succeeding (the flag of the stage is set, the alert is active, the      *)
(* remaining stages are evaluated).                                        *)

C13_DispatchFailureIsolated ==
    [][lastOp' = "throw" =>
          LET ok == FiringEffect(elapsedSec', nowT)
          IN  /\ lastFiredStageIds' = ok.main
              /\ preAlertFiredIds' = ok.pre
              /\ activeAlert' = ok.alert]_vars

-----------------------------------------------------------------------------
(* C14: in a run that keeps running, with ticks continuing and the wall    *)
(* clock advancing, once the time run reaches the total duration every     *)
(* stage eventually has had its MainAlert emitted.                         *)

\* The time the run has been running by the wall clock, pauses excluded.
WallElapsedMs == (nowT - Val(startTs)) - pausedAccum

C14_EveryStageFires ==
    (running /\ WallElapsedMs >= settings.totalMinutes * 60000)
        ~> (\A id \in StageIds : emitted[<<"stage", id>>] >= 1)

-----------------------------------------------------------------------------
(* C15: in every reachable state at most one repeating interval is live,   *)
(* and a live interval is the one whose handle beeperRef holds (no repeat  *)
(* runs with its handle lost, no handle outlives its interval).            *)

C15_AtMostOneRepeat ==
    /\ Cardinality(timers) <= 1
    /\ \A t \in timers : beeperRef = Some(t.h)
    /\ beeperRef # NULL => RepeatActive

\* Two MainAlerts in one tick: the second repeat was started while the first
\* was live, and one interval is left.
C15_Witness ==
    /\ lastOp = "tick"
    /\ Len(events) = 2
    /\ \A i \in 1..2 : events[i].type = "stage"
    /\ \E t \in timers :
          /\ beeperRef = Some(t.h)
          /\ t.kind = events[2].stage.sound

-----------------------------------------------------------------------------
(* C16: within a run no PreAlert is emitted for a stage whose MainAlert    *)
(* has been emitted in that run, whatever ticks, pause/resume cycles and   *)
(* edits of the stage's threshold or of the total duration come between.   *)

C16_NoPreAlertAfterMainAlert ==
    [][~NewRun =>
          \A id \in StageIds :
             emitted[<<"stage", id>>] > 0 => PreEvents(events', id) = 0]_vars

-----------------------------------------------------------------------------
(* C17: a tick while the timer is not running emits no alert and changes   *)
(* no fired flag, no active alert and no repeat, even when a stage's       *)
(* threshold is at or below the elapsed value at pause time.               *)

C17_TickNotRunningIsNoOp ==
    [][(lastOp' = "tick" /\ ~running) =>
          /\ events' = <<>>
          /\ UNCHANGED <<lastFiredStageIds, preAlertFiredIds, activeAlert,
                         beeperRef, timers, emitted>>]_vars

\* A tick of a paused timer with an unfired stage whose threshold lies at or
\* below the elapsed value at pause time.
C17_Witness ==
    /\ lastOp = "tick"
    /\ Paused
    /\ elapsedAtPause > 0
    /\ \E id \in StageIds :
          /\ id \notin lastFiredStageIds
          /\ ThresholdSec(settings, id) * 1000 <= elapsedAtPause

-----------------------------------------------------------------------------
(* C18: pause() changes nothing unless the timer is running (a second      *)
(* pause() while paused does not move the pause timestamp), and then stops *)
(* the timer at the current time; resume() takes effect exactly when the   *)
(* timer is not running and a start timestamp exists, adding the paused    *)
(* interval to the accumulated pause, and changes nothing otherwise.       *)

C18_PauseResumeGuards ==
    [][/\ (lastOp' = "pause" /\ ~running) => UNCHANGED progVars
       /\ (lastOp' = "pause" /\ running) =>
             /\ ~running' /\ pauseTs' = Some(nowT)
             /\ UNCHANGED <<startTs, pausedAccum>>
       /\ (lastOp' = "resume" /\ ~running /\ startTs # NULL) =>
             /\ running' /\ pauseTs' = NULL
             /\ pausedAccum' = pausedAccum + (nowT - Val(pauseTs))
             /\ UNCHANGED startTs
       /\ (lastOp' = "resume" /\ ~(~running /\ startTs # NULL)) =>
             UNCHANGED progVars]_vars

\* pause() was called a second time, later, while paused: the pause
\* timestamp is still that of the first call.
C18_Witness ==
    /\ lastOp = "pause"
    /\ ~dirty
    /\ Paused
    /\ Val(pauseTs) < nowT

-----------------------------------------------------------------------------
(* C19: the timer run is well-formed in every reachable state: the pause   *)
(* timestamp is non-null exactly when the timer is paused (not running,    *)
(* start timestamp present); running implies a start timestamp; a timer    *)
(* never started has accumulated pause 0; and within a run the accumulated *)
(* pause never decreases.                                                  *)

C19_TimerRunWellFormed ==
    /\ [](/\ pauseTs # NULL <=> (~running /\ startTs # NULL)
          /\ running => startTs # NULL
          /\ startTs = NULL => pausedAccum = 0)
    /\ [][~NewRun => pausedAccum' >= pausedAccum]_vars

\* Paused for the second time in a run, after a pause that lasted.
C19_Witness ==
    /\ ~running /\ startTs # NULL /\ pauseTs # NULL
    /\ pausedAccum > 0
    /\ resumeTs # NULL

-----------------------------------------------------------------------------
(* C20: for every list of raw stages and every totalMinutes the canonical  *)
(* sequence is a permutation of the input stages (same ids), each          *)
(* threshold being the raw one rounded to a nearest integer minute and     *)
(* clamped to [0, totalMinutes], a non-numeric one 0; it ascends by        *)
(* threshold, and stages of equal threshold keep their insertion order.    *)

\* m is what raw threshold r must become under totalMinutes tm.
IsCanonicalMinute(r, tm, m) ==
    IF ~r.isNum THEN m = 0
    ELSE \E n \in {(r.halves - 1) \div 2, (r.halves + 1) \div 2} :
            /\ 2 * n - r.halves \in -1..1
            /\ m = (IF n < 0 THEN 0 ELSE IF n > tm THEN tm ELSE n)

C20_CanonicalSequence ==
    LET raw == settings.stages
        tm == settings.totalMinutes
        ss == sortedStages
    IN  /\ Len(ss) = Len(raw)
        /\ \A i \in 1..Len(raw) :
              Cardinality({j \in 1..Len(ss) : ss[j].id = raw[i].id}) = 1
        /\ \A j \in 1..Len(ss) :
              LET r == raw[PosOf(settings, ss[j].id)]
              IN  /\ ss[j].sound = r.sound
                  /\ IsCanonicalMinute(r.minute, tm, ss[j].minute)
        /\ \A j, k \in 1..Len(ss) :
              j < k =>
                 /\ ss[j].minute <= ss[k].minute
                 /\ ss[j].minute = ss[k].minute =>
                        PosOf(settings, ss[j].id) < PosOf(settings, ss[k].id)

\* A rendered catalog of three stages holding a non-numeric threshold, one
\* below 0 and one beyond the total: the first two tie at 0 and the order
\* of the sequence differs from the order of insertion.
C20_Witness ==
    /\ lastOp = "tick"
    /\ Len(settings.stages) = 3
    /\ settings.stages[1].minute.halves > 2 * settings.totalMinutes
    /\ settings.stages[2].minute = NaN
    /\ settings.stages[3].minute.halves < 0
    /\ sortedStages[1].id = settings.stages[2].id
    /\ sortedStages[2].id = settings.stages[3].id
    /\ sortedStages[3].minute = settings.totalMinutes

-----------------------------------------------------------------------------
(* C21: nextStage is the first stage in canonical order whose threshold in *)
(* seconds strictly exceeds the elapsed seconds, and none exactly when     *)
(* every threshold is <= the elapsed seconds; a stage whose threshold      *)
(* equals the elapsed seconds is never the next one.                       *)

C21_NextStageStrictlyAhead ==
    LET ss == sortedStages
        el == elapsedSec
    IN  /\ nextStage = NULL <=> \A j \in 1..Len(ss) : ss[j].minute * 60 <= el
        /\ nextStage # NULL =>
              \E j \in 1..Len(ss) :
                 /\ ss[j] = Val(nextStage)
                 /\ ss[j].minute * 60 > el
                 /\ \A k \in 1..(j - 1) : ss[k].minute * 60 <= el

\* A render of the running timer with one stage exactly at the elapsed
\* seconds and a later stage, which is the next one.
C21_Witness ==
    /\ lastOp = "tick" /\ running
    /\ \E id \in StageIds : ThresholdSec(settings, id) = elapsedSec
    /\ nextStage # NULL
    /\ Val(nextStage).minute * 60 > elapsedSec

-----------------------------------------------------------------------------
(* C22: in every reachable state, if the repeating signal is active then   *)
(* an active alert is present, so that acknowledging the displayed alert   *)
(* can stop the sound.                                                     *)

C22_RepeatImpliesActiveAlert ==
    RepeatActive => activeAlert # NULL

=============================================================================
